---- MODULE Spec2Model ----
(***************************************************************************)
(* Model of media_convert.py: the ConversionThread worker (probe, argument  *)
(* resolution, launch of the external transcoder, the diagnostic-stream     *)
(* read loop, the progress/finished signals) and the parts of               *)
(* MediaConverterGUI that start a worker and handle its notifications.      *)
(*                                                                         *)
(* Strings are modelled by what the code does with them:                    *)
(*   - a bitrate is a string, "" standing for None (both are falsy);        *)
(*   - a resolution is the sequence of its 'x'-separated fields, << >>      *)
(*     standing for None;                                                   *)
(*   - a diagnostic line is a record saying whether it decodes, how many    *)
(*     '='-separated parts it has, its stripped first part, and whether     *)
(*     float() accepts its second part and with which value.                *)
(***************************************************************************)
EXTENDS Integers, Sequences, FiniteSets, TLC

\* ---------------------------------------------------------------- bounds
MaxRuns == 2
MaxLines == 2
MaxGuiLines == 1

Threads == 1..MaxRuns

\* ------------------------------------------------------------- constants
VIDEO == {"mp4", "avi", "mkv", "webm", "mov", "flv"}
AUDIO == {"mp3", "wav", "flac", "ogg", "aac"}

UnsupportedMsg == "Unsupported output format"
SuccessMsg == "Conversion successful"

\* ------------------------------------------------------ inputs (bounded)
\* Formats a ConversionThread may be constructed with ("xyz" is in neither set).
Formats == VIDEO \cup AUDIO \cup {"xyz"}
VideoBitrates == {"", "5M"}
AudioBitrates == {"", "192k"}
\* "1280x720", "1280" (one field only) and None
Resolutions == {<< >>, <<1280, 720>>, <<1280>>}

Requests ==
    [output_format : Formats, video_bitrate : VideoBitrates,
     audio_bitrate : AudioBitrates, resolution : Resolutions]

NoRequest ==
    [output_format |-> "", video_bitrate |-> "", audio_bitrate |-> "",
     resolution |-> << >>]

\* Durations (seconds) ffprobe may report, as float() reads them.
Durations == {-100, 0, 100}
\* What ffmpeg.probe followed by float(probe['format']['duration']) can do.
ProbeOutcomes ==
    {[kind |-> "error", duration |-> 0],       \* ffmpeg.probe raises ffmpeg.Error
     [kind |-> "missing", duration |-> 0],     \* no 'duration' key: KeyError
     [kind |-> "notfloat", duration |-> 0]}    \* duration "N/A": ValueError
    \cup {[kind |-> "ok", duration |-> d] : d \in Durations}

\* Elapsed-time values (microseconds) the diagnostic stream may carry.
ElapsedUs == {-5000000, 29000000, 50000000, 150000000}

EofLine == [decodes |-> TRUE, nparts |-> 0, key |-> "", isfloat |-> FALSE, us |-> 0]
NoLine == [decodes |-> TRUE, nparts |-> -1, key |-> "", isfloat |-> FALSE, us |-> 0]

\* Lines the external process can write to its diagnostic stream.
Lines ==
    {[decodes |-> TRUE, nparts |-> 2, key |-> "out_time_ms", isfloat |-> TRUE, us |-> u] :
        u \in ElapsedUs}
    \cup
    {[decodes |-> TRUE, nparts |-> 2, key |-> "out_time_ms", isfloat |-> FALSE, us |-> 0],  \* "out_time_ms=N/A"
     [decodes |-> TRUE, nparts |-> 2, key |-> "frame", isfloat |-> TRUE, us |-> 0],          \* "frame=10"
     [decodes |-> TRUE, nparts |-> 1, key |-> "progress", isfloat |-> FALSE, us |-> 0],      \* no '='
     [decodes |-> FALSE, nparts |-> 1, key |-> "", isfloat |-> FALSE, us |-> 0]}             \* not UTF-8

ExitCodes == {0, 1}

VARIABLES
    pc,               \* per thread: position of run()
    req,              \* per thread: the fields set by __init__
    duration,         \* per thread: local 'duration'
    output_args,      \* per thread: local 'output_args'
    output,           \* per thread: local 'output' (last line read)
    proc,             \* per thread: state of the process started by run_async
    exitcode,         \* per thread: exit status of that process
    stderr,           \* per thread: lines written and not yet read
    written,          \* per thread: number of lines the process wrote
    probed,           \* per thread: ffmpeg.probe has started ffprobe
    emitted,          \* per thread: notifications emitted, in order
    delivered,        \* per thread: number of notifications the UI handled
    conversion_thread,\* MediaConverterGUI.conversion_thread (0: not set)
    input_file,       \* MediaConverterGUI.input_file
    output_file,      \* MediaConverterGUI.output_file
    format_combo,     \* current item of format_combo
    input_label,      \* text of input_label after 'Input File: '
    video_visible,    \* visibility of the video-only widgets
    convert_enabled,  \* convert_button.isEnabled()
    progress_bar,     \* progress_bar.value()
    status_label      \* status_label.text()

worker_vars == <<pc, req, duration, output_args, output, probed, emitted>>
proc_vars == <<proc, exitcode, stderr, written>>
gui_vars == <<conversion_thread, input_file, input_label, output_file, format_combo,
              video_visible, convert_enabled, progress_bar, status_label>>
vars == <<worker_vars, proc_vars, delivered, gui_vars>>

\* --------------------------------------------------------------- helpers
EmptyArgs == [k \in {} |-> ""]

\* output_args[k] = v
Put(args, k, v) == (k :> v) @@ args

Truthy(s) == s # ""

\* int(x) of the quotient n/d: truncation toward zero (d # 0)
Abs(n) == IF n < 0 THEN -n ELSE n
TruncDiv(n, d) ==
    IF (n >= 0) = (d > 0) THEN Abs(n) \div Abs(d) ELSE -(Abs(n) \div Abs(d))

Min(a, b) == IF a <= b THEN a ELSE b

\* Python computes int(float(v) / 1000000 / duration * 100) in binary floating
\* point.  For these (|microseconds|, |duration|) pairs the double falls just
\* below the exact integer quotient, so int() yields one less in magnitude
\* (29.0 / 100.0 * 100 = 28.999999999999996).
FloatBelow == {<<29000000, 100>>}

\* int(time / duration * 100) with time = us / 1000000 (duration # 0)
IntPercent(us, dur) ==
    LET exact == TruncDiv(us, 10000 * dur)
    IN  IF <<Abs(us), Abs(dur)>> \in FloatBelow
        THEN (IF exact > 0 THEN exact - 1 ELSE exact + 1)
        ELSE exact

\* the percentage left rather than the percentage done
ProgressRemaining(us, dur) == Min(100 - IntPercent(us, dur), 100)

\* line 67: progress = min(int(time / duration * 100), 100)
Progress(us, dur) == Min(IntPercent(us, dur), 100)

\* ------------------------------------------------ parameter resolution
\* lines 38-39: width, height = map(int, resolution.split('x'))
ResolutionOk(resolution) == Len(resolution) = 2
ScaleFilter(resolution) == <<"scale", resolution[1], resolution[2]>>

\* the video bitrate taken whatever the format is
BitrateArgsUnguarded(r) ==
    LET a1 == IF Truthy(r.video_bitrate)
              THEN Put(EmptyArgs, "video_bitrate", r.video_bitrate)
              ELSE EmptyArgs
    IN  IF Truthy(r.audio_bitrate)
        THEN Put(a1, "audio_bitrate", r.audio_bitrate)
        ELSE a1

\* lines 32-36: the bitrates
BitrateArgs(r) ==
    LET a1 == IF Truthy(r.video_bitrate) /\ r.output_format \in VIDEO
              THEN Put(EmptyArgs, "video_bitrate", r.video_bitrate)
              ELSE EmptyArgs
    IN  IF Truthy(r.audio_bitrate)
        THEN Put(a1, "audio_bitrate", r.audio_bitrate)
        ELSE a1

\* lines 32-39: the keys set before the codec selection
OptionArgs(r) ==
    IF r.resolution # << >> /\ r.output_format \in VIDEO
    THEN Put(BitrateArgs(r), "vf", ScaleFilter(r.resolution))
    ELSE BitrateArgs(r)

\* line 37-38: the resolution is parsed only for a video format
ResolutionRaises(r) ==
    r.resolution # << >> /\ r.output_format \in VIDEO /\ ~ResolutionOk(r.resolution)

\* the per-format lookup without its aac entry
AudioCodecArgsNoAac(args, fmt) ==
    IF fmt = "mp3" THEN Put(args, "acodec", "libmp3lame")
    ELSE IF fmt = "ogg" THEN Put(args, "acodec", "libvorbis")
    ELSE args

\* lines 44-50: the per-format audio codec
AudioCodecArgs(args, fmt) ==
    IF fmt = "mp3" THEN Put(args, "acodec", "libmp3lame")
    ELSE IF fmt = "ogg" THEN Put(args, "acodec", "libvorbis")
    ELSE IF fmt = "aac" THEN Put(args, "acodec", "aac")
    ELSE args

\* lines 42-43: output_args.update({'vcodec': 'libx264', 'acodec': 'aac'})
VideoCodecArgs(args) == Put(Put(args, "vcodec", "libx264"), "acodec", "aac")

\* lines 42-52: codec selection, or the ValueError of line 52
FormatSupported(fmt) == fmt \in VIDEO \/ fmt \in AUDIO

CodecArgs(args, fmt) ==
    IF fmt \in VIDEO THEN VideoCodecArgs(args) ELSE AudioCodecArgs(args, fmt)

\* lines 32-52 as a whole: [ok, args, err]
ResolveArgs(r) ==
    IF ResolutionRaises(r)
    THEN [ok |-> FALSE, args |-> BitrateArgs(r), err |-> "invalid resolution"]
    ELSE IF ~FormatSupported(r.output_format)
    THEN [ok |-> FALSE, args |-> OptionArgs(r), err |-> UnsupportedMsg]
    ELSE [ok |-> TRUE, args |-> CodecArgs(OptionArgs(r), r.output_format), err |-> ""]

\* -------------------------------------------------------- notifications
\* line 10: progress = pyqtSignal(int); line 11: finished = pyqtSignal(bool, str).
\* 'us' records the elapsed time a progress value was computed from; it is
\* not transmitted.
ProgressNote(v, u) ==
    [sig |-> "progress", value |-> v, success |-> FALSE, message |-> "", us |-> u]
FinishedNote(ok, msg) ==
    [sig |-> "finished", value |-> 0, success |-> ok, message |-> msg, us |-> 0]

Emit(t, note) == emitted' = [emitted EXCEPT ![t] = Append(@, note)]

\* the success emit placed after the try statement instead of inside it
RaiseThenSuccess(t, msg) ==
    /\ emitted' = [emitted EXCEPT ![t] =
                      Append(Append(@, FinishedNote(FALSE, msg)),
                             FinishedNote(TRUE, SuccessMsg))]
    /\ pc' = [pc EXCEPT ![t] = "emitted"]

\* lines 71-72: except Exception as e: self.finished.emit(False, str(e))
Raise(t, msg) ==
    /\ Emit(t, FinishedNote(FALSE, msg))
    /\ pc' = [pc EXCEPT ![t] = "emitted"]

\* ---------------------------------------------------- ConversionThread.run
\* lines 25-26: ffmpeg.probe and float(probe['format']['duration'])
Probe(t) ==
    /\ pc[t] = "probe"
    /\ probed' = [probed EXCEPT ![t] = TRUE]
    /\ \E o \in ProbeOutcomes :
         IF o.kind = "ok"
         THEN /\ duration' = [duration EXCEPT ![t] = o.duration]
              /\ pc' = [pc EXCEPT ![t] = "args"]
              /\ UNCHANGED emitted
         ELSE /\ Raise(t, IF o.kind = "error" THEN "ffprobe error"
                          ELSE IF o.kind = "missing" THEN "'duration'"
                          ELSE "could not convert string to float")
              /\ UNCHANGED duration
    /\ UNCHANGED <<req, output_args, output, proc_vars, delivered, gui_vars>>

\* lines 29-54: build output_args, or raise
Resolve(t) ==
    /\ pc[t] = "args"
    /\ LET res == ResolveArgs(req[t])
       IN  /\ output_args' = [output_args EXCEPT ![t] = res.args]
           /\ IF res.ok
              THEN /\ pc' = [pc EXCEPT ![t] = "launch"]
                   /\ UNCHANGED emitted
              ELSE Raise(t, res.err)
    /\ UNCHANGED <<req, duration, output, probed, proc_vars, delivered, gui_vars>>

\* line 57: ffmpeg.run_async starts the process, or raises (no ffmpeg binary)
Launch(t) ==
    /\ pc[t] = "launch"
    /\ \E started \in BOOLEAN :
         IF started
         THEN /\ proc' = [proc EXCEPT ![t] = "running"]
              /\ pc' = [pc EXCEPT ![t] = "readline"]
              /\ UNCHANGED emitted
         ELSE /\ Raise(t, "No such file or directory: 'ffmpeg'")
              /\ UNCHANGED proc
    /\ UNCHANGED <<req, duration, output_args, output, probed, exitcode, stderr,
                   written, delivered, gui_vars>>

\* line 60: output = process.stderr.readline().decode(); blocks while the
\* pipe is empty and open; '' at end-of-stream; decode() may raise
ReadLine(t) ==
    /\ pc[t] = "readline"
    /\ IF stderr[t] # << >>
       THEN /\ stderr' = [stderr EXCEPT ![t] = Tail(@)]
            /\ IF Head(stderr[t]).decodes
               THEN /\ output' = [output EXCEPT ![t] = Head(stderr[t])]
                    /\ pc' = [pc EXCEPT ![t] = "handle"]
                    /\ UNCHANGED emitted
               ELSE /\ Raise(t, "'utf-8' codec can't decode byte")
                    /\ UNCHANGED output
       ELSE /\ proc[t] \in {"closed", "exited"}
            /\ output' = [output EXCEPT ![t] = EofLine]
            /\ pc' = [pc EXCEPT ![t] = "handle"]
            /\ UNCHANGED <<stderr, emitted>>
    /\ UNCHANGED <<req, duration, output_args, probed, proc, exitcode, written,
                   delivered, gui_vars>>

\* the loop left only on a zero exit status (process.poll() == 0)
LoopExitOnZero(t) == output[t] = EofLine /\ proc[t] = "exited" /\ exitcode[t] = 0

\* line 61: output == '' and process.poll() is not None
LoopExit(t) == output[t] = EofLine /\ proc[t] = "exited"

\* line 65: len(parts) == 2 and parts[0].strip() == 'out_time_ms'
IsProgressLine(line) == line.nparts = 2 /\ line.key = "out_time_ms"

\* line 70: the outcome reported when the loop is left
LoopOutcome(t) == FinishedNote(TRUE, SuccessMsg)

\* lines 61-70: one pass of the loop body after the read
Handle(t) ==
    /\ pc[t] = "handle"
    /\ IF LoopExit(t)
       THEN /\ Emit(t, LoopOutcome(t))
            /\ pc' = [pc EXCEPT ![t] = "emitted"]
       ELSE IF output[t] # EofLine /\ IsProgressLine(output[t])
       THEN IF ~output[t].isfloat
            THEN Raise(t, "could not convert string to float")
            ELSE IF duration[t] = 0
            THEN Raise(t, "float division by zero")
            ELSE /\ Emit(t, ProgressNote(Progress(output[t].us, duration[t]), output[t].us))
                 /\ pc' = [pc EXCEPT ![t] = "readline"]
       ELSE /\ pc' = [pc EXCEPT ![t] = "readline"]
            /\ UNCHANGED emitted
    /\ UNCHANGED <<req, duration, output_args, output, probed, proc_vars,
                   delivered, gui_vars>>

\* run() returns after the emit of line 70 or 72; its locals (duration,
\* output_args, output, process and the pipes it holds) go out of scope
Return(t) ==
    /\ pc[t] = "emitted"
    /\ pc' = [pc EXCEPT ![t] = "done"]
    /\ duration' = [duration EXCEPT ![t] = 0]
    /\ output_args' = [output_args EXCEPT ![t] = EmptyArgs]
    /\ output' = [output EXCEPT ![t] = NoLine]
    /\ proc' = [proc EXCEPT ![t] = "none"]
    /\ exitcode' = [exitcode EXCEPT ![t] = 0]
    /\ stderr' = [stderr EXCEPT ![t] = << >>]
    /\ written' = [written EXCEPT ![t] = 0]
    /\ UNCHANGED <<req, probed, emitted, delivered, gui_vars>>

\* ------------------------------------------------- the external process
\* the number of lines a transcoder writes at most: MaxLines for a worker
\* constructed directly, MaxGuiLines for one the window started
LineBudget == IF conversion_thread = 0 THEN MaxLines ELSE MaxGuiLines

\* the transcoder writes one line to its diagnostic stream
ProcWrite(t) ==
    /\ proc[t] = "running"
    /\ written[t] < LineBudget
    /\ \E line \in Lines : stderr' = [stderr EXCEPT ![t] = Append(@, line)]
    /\ written' = [written EXCEPT ![t] = @ + 1]
    /\ UNCHANGED <<worker_vars, proc, exitcode, delivered, gui_vars>>

\* the transcoder closes its diagnostic stream before it exits
ProcClose(t) ==
    /\ proc[t] = "running"
    /\ proc' = [proc EXCEPT ![t] = "closed"]
    /\ UNCHANGED <<worker_vars, exitcode, stderr, written, delivered, gui_vars>>

\* the transcoder exits, normally or not; poll() then returns its status
ProcExit(t) ==
    /\ proc[t] \in {"running", "closed"}
    /\ proc' = [proc EXCEPT ![t] = "exited"]
    /\ \E c \in ExitCodes : exitcode' = [exitcode EXCEPT ![t] = c]
    /\ UNCHANGED <<worker_vars, stderr, written, delivered, gui_vars>>

\* ------------------------------------------------------ MediaConverterGUI
\* lines 100-112: the items of format_combo, as currentText().split() reads them
FormatItems ==
    {<<f, "(Video)">> : f \in VIDEO} \cup {<<f, "(Audio)">> : f \in AUDIO}

\* the items the user picks among
PickedItems == {<<"mp4", "(Video)">>, <<"mp3", "(Audio)">>, <<"wav", "(Audio)">>}

\* lines 124, 130, 136: the current texts of the option combos
VideoBitrateText == "5M"
AudioBitrateText == "192k"
ResolutionText == <<1280, 720>>

\* files the dialogs may return ("" when the dialog is cancelled)
InputFiles == {"", "in.avi"}
OutputFiles == {"", "out"}

\* the number of ConversionThread objects created so far
Created == Cardinality({t \in Threads : pc[t] # "unborn"})

\* lines 162-165
select_input_file ==
    /\ \E f \in InputFiles :
         /\ input_file' = f
         /\ input_label' = IF f # "" THEN f ELSE input_label
    /\ UNCHANGED <<worker_vars, proc_vars, delivered, conversion_thread,
                   output_file, format_combo, video_visible, convert_enabled,
                   progress_bar, status_label>>

\* lines 168-173
IsVideoItem(item) == item[1] \in VIDEO

\* line 113: currentTextChanged -> update_visible_options
format_changed ==
    /\ \E item \in (FormatItems \cap PickedItems) \ {format_combo} :
         /\ format_combo' = item
         /\ video_visible' = IsVideoItem(item)
    /\ UNCHANGED <<worker_vars, proc_vars, delivered, conversion_thread,
                   input_file, input_label, output_file, convert_enabled,
                   progress_bar, status_label>>

\* lines 188-195: the request handed to the new ConversionThread
GuiRequest ==
    [output_format |-> format_combo[1],
     video_bitrate |-> IF video_visible THEN VideoBitrateText ELSE "",
     audio_bitrate |-> AudioBitrateText,
     resolution |-> IF video_visible THEN ResolutionText ELSE << >>]

\* the Convert button emits clicked only while it is enabled
ClickAccepted == convert_enabled

\* line 192: the assignment drops the last reference to the previous
\* ConversionThread object, whose fields and signal connections go with it
Released(f, fresh) ==
    [t \in Threads |-> IF t = conversion_thread THEN fresh ELSE f[t]]

\* lines 175-198, run when the Convert button is clicked
start_conversion ==
    /\ ClickAccepted
    /\ IF input_file = ""
       THEN /\ status_label' = "Please select an input file."
            /\ UNCHANGED <<worker_vars, delivered, conversion_thread, output_file,
                           convert_enabled, progress_bar>>
       ELSE \E f \in OutputFiles :
              /\ output_file' = f
              /\ IF f # ""
                 THEN /\ Created < MaxRuns
                      /\ LET t == Created + 1
                         IN  /\ convert_enabled' = FALSE
                             /\ progress_bar' = 0
                             /\ status_label' = "Converting..."
                             /\ req' = [Released(req, NoRequest) EXCEPT ![t] = GuiRequest]
                             /\ probed' = Released(probed, FALSE)
                             /\ emitted' = Released(emitted, << >>)
                             /\ delivered' = Released(delivered, 0)
                             /\ conversion_thread' = t
                             /\ pc' = [pc EXCEPT ![t] = "probe"]
                      /\ UNCHANGED <<duration, output_args, output>>
                 ELSE UNCHANGED <<worker_vars, delivered, conversion_thread,
                                  convert_enabled, progress_bar, status_label>>
    /\ UNCHANGED <<proc_vars, input_file, input_label, format_combo, video_visible>>

\* the next queued notification of thread t
Pending(t) == delivered[t] < Len(emitted[t])
NextNote(t) == emitted[t][delivered[t] + 1]

\* lines 200-201, run in the UI thread for a queued progress signal
update_progress(t) ==
    /\ Pending(t)
    /\ NextNote(t).sig = "progress"
    /\ progress_bar' = NextNote(t).value
    /\ delivered' = [delivered EXCEPT ![t] = @ + 1]
    /\ UNCHANGED <<worker_vars, proc_vars, conversion_thread, input_file,
                   input_label, output_file, format_combo, video_visible,
                   convert_enabled, status_label>>

\* lines 203-208, run in the UI thread for a queued finished signal
conversion_finished(t) ==
    /\ Pending(t)
    /\ NextNote(t).sig = "finished"
    /\ convert_enabled' = TRUE
    /\ status_label' = IF NextNote(t).success
                       THEN "Conversion completed successfully."
                       ELSE "Conversion failed: " \o NextNote(t).message
    /\ delivered' = [delivered EXCEPT ![t] = @ + 1]
    /\ UNCHANGED <<worker_vars, proc_vars, conversion_thread, input_file,
                   input_label, output_file, format_combo, video_visible,
                   progress_bar>>

\* -------------------------------------------------------- specifications
NoThreads ==
    /\ duration = [t \in Threads |-> 0]
    /\ output_args = [t \in Threads |-> EmptyArgs]
    /\ output = [t \in Threads |-> NoLine]
    /\ proc = [t \in Threads |-> "none"]
    /\ exitcode = [t \in Threads |-> 0]
    /\ stderr = [t \in Threads |-> << >>]
    /\ written = [t \in Threads |-> 0]
    /\ probed = [t \in Threads |-> FALSE]
    /\ emitted = [t \in Threads |-> << >>]
    /\ delivered = [t \in Threads |-> 0]

\* lines 74-160: the window after initUI
GuiFields ==
    /\ conversion_thread = 0
    /\ input_file = ""
    /\ input_label = ""
    /\ output_file = ""
    /\ format_combo = <<"mp4", "(Video)">>
    /\ video_visible = TRUE
    /\ convert_enabled = TRUE
    /\ progress_bar = 0
    /\ status_label = ""

\* A ConversionThread constructed with any request and started (lines 13-20).
Init ==
    /\ NoThreads
    /\ GuiFields
    /\ \E r \in Requests :
         req = [t \in Threads |-> IF t = 1 THEN r ELSE NoRequest]
    /\ pc = [t \in Threads |-> IF t = 1 THEN "probe" ELSE "unborn"]

WorkerStep(t) ==
    \/ Probe(t)
    \/ Resolve(t)
    \/ Launch(t)
    \/ ReadLine(t)
    \/ Handle(t)
    \/ Return(t)

ProcStep(t) ==
    \/ ProcWrite(t)
    \/ ProcClose(t)
    \/ ProcExit(t)

Next == \E t \in Threads : WorkerStep(t) \/ ProcStep(t)

Spec == Init /\ [][Next]_vars

\* The application after main(): no worker yet.
GuiInit ==
    /\ NoThreads
    /\ GuiFields
    /\ req = [t \in Threads |-> NoRequest]
    /\ pc = [t \in Threads |-> "unborn"]

GuiStep ==
    \/ select_input_file
    \/ format_changed
    \/ start_conversion
    \/ \E t \in Threads : update_progress(t)
    \/ \E t \in Threads : conversion_finished(t)

GuiNext == Next \/ GuiStep

GuiSpec == GuiInit /\ [][GuiNext]_vars

\* Fairness: the worker thread is scheduled whenever it can take a step, and
\* the external process runs to its natural completion (it exits).
LiveRequests ==
    [output_format : {"mp4", "mp3", "xyz"}, video_bitrate : {"5M"},
     audio_bitrate : {"192k"}, resolution : {<<1280, 720>>, <<1280>>}]

LiveInit ==
    /\ NoThreads
    /\ GuiFields
    /\ \E r \in LiveRequests :
         req = [t \in Threads |-> IF t = 1 THEN r ELSE NoRequest]
    /\ pc = [t \in Threads |-> IF t = 1 THEN "probe" ELSE "unborn"]

LiveSpec ==
    /\ LiveInit
    /\ [][Next]_vars
    /\ \A t \in Threads : WF_vars(WorkerStep(t)) /\ WF_vars(ProcExit(t))

\* ----------------------------------------------------------------- claims
Notes(t) == emitted[t]
IsFinished(n) == n.sig = "finished"
IsProgress(n) == n.sig = "progress"
FinishedCount(t) == Cardinality({i \in DOMAIN Notes(t) : IsFinished(Notes(t)[i])})
LastNote(t) == Notes(t)[Len(Notes(t))]
RunEnded(t) == pc[t] \in {"emitted", "done"}
Fmt(t) == req[t].output_format

\* C1: the notifications of a run are zero or more progress updates followed
\* by one completion notification: at most one finished is ever emitted,
\* nothing is emitted after it, and a run that has ended has emitted it.
C1_ProgressThenOneFinished ==
    \A t \in Threads :
        /\ FinishedCount(t) <= 1
        /\ \A i \in DOMAIN Notes(t) : IsFinished(Notes(t)[i]) => i = Len(Notes(t))
        /\ RunEnded(t) <=> FinishedCount(t) = 1

C1_Witness ==
    /\ pc[1] = "done"
    /\ Len(Notes(1)) >= 3
    /\ IsProgress(Notes(1)[1])
    /\ IsProgress(Notes(1)[2])
    /\ IsFinished(Notes(1)[3])

\* C2: under fair scheduling of the worker and the external process, every
\* started run eventually emits its completion notification.
C2_EveryRunFinishes ==
    \A t \in Threads : (pc[t] = "probe") ~> (FinishedCount(t) = 1)

C2_Witness ==
    /\ pc[1] = "emitted"
    /\ proc[1] = "exited"
    /\ exitcode[1] = 1
    /\ written[1] >= 2
    /\ FinishedCount(1) = 1

C4_Original ==
    \A t \in Threads : \A i \in DOMAIN Notes(t) :
        IsProgress(Notes(t)[i]) => Notes(t)[i].value \in 0..100

\* C5 (as stated): for a format outside VIDEO and AUDIO the run fails with the
\* unsupported-format message before any external process (probe or
\* transcode) has been started.
C5_Original ==
    \A t \in Threads :
        (pc[t] # "unborn" /\ ~FormatSupported(Fmt(t))) =>
            /\ ~probed[t]
            /\ proc[t] = "none"
            /\ RunEnded(t) => (~LastNote(t).success /\ LastNote(t).message = UnsupportedMsg)

\* C6 (as stated): a success outcome is emitted only when the process exited
\* normally; when it exited with a non-zero status the outcome is a failure.
C6_Original ==
    \A t \in Threads :
        (pc[t] = "emitted" /\ LastNote(t).success) =>
            (proc[t] = "exited" /\ exitcode[t] = 0)

\* C7: for a VIDEO format the resolved arguments hold a video codec and an
\* audio codec; for an AUDIO format they hold no video codec, no video bitrate
\* and no scale filter whatever was supplied, and resolution raises no error.
C7_VideoAndAudioArgs ==
    \A t \in Threads :
        /\ (pc[t] \in {"launch", "readline", "handle"} /\ Fmt(t) \in VIDEO) =>
              {"vcodec", "acodec"} \subseteq DOMAIN output_args[t]
        /\ (pc[t] \in {"launch", "readline", "handle"} /\ Fmt(t) \in AUDIO) =>
              DOMAIN output_args[t] \cap {"vcodec", "video_bitrate", "vf"} = {}
        /\ (RunEnded(t) /\ Fmt(t) \in AUDIO) =>
              LastNote(t).message \notin {"invalid resolution", UnsupportedMsg}

C7_Witness ==
    /\ pc[1] = "launch"
    /\ Fmt(1) = "mp3"
    /\ req[1].video_bitrate = "5M"
    /\ req[1].resolution = <<1280>>
    /\ DOMAIN output_args[1] = {"audio_bitrate", "acodec"}

Resolved(t) == pc[t] \in {"launch", "readline", "handle"}
\* output_args.get('acodec'), "" when the key is absent
Codec(t) == IF "acodec" \in DOMAIN output_args[t] THEN output_args[t]["acodec"] ELSE ""

\* C8 (as stated): mp3 resolves to libmp3lame, ogg to libvorbis, and for wav,
\* flac and aac the resolver sets no audio codec.
C8_Original ==
    \A t \in Threads : Resolved(t) =>
        /\ Fmt(t) = "mp3" => Codec(t) = "libmp3lame"
        /\ Fmt(t) = "ogg" => Codec(t) = "libvorbis"
        /\ Fmt(t) \in {"wav", "flac", "aac"} => "acodec" \notin DOMAIN output_args[t]

\* C8 (amended): mp3 resolves to libmp3lame, ogg to libvorbis, aac to the
\* codec aac, and for wav and flac the resolver sets no audio codec.
C8_AudioCodecs ==
    \A t \in Threads : Resolved(t) =>
        /\ Fmt(t) = "mp3" => Codec(t) = "libmp3lame"
        /\ Fmt(t) = "ogg" => Codec(t) = "libvorbis"
        /\ Fmt(t) = "aac" => Codec(t) = "aac"
        /\ Fmt(t) \in {"wav", "flac"} => "acodec" \notin DOMAIN output_args[t]

C8_Witness ==
    /\ pc[1] = "launch"
    /\ Fmt(1) = "aac"
    /\ "acodec" \in DOMAIN output_args[1]
    /\ output_args[1]["acodec"] = "aac"

\* C9 (as stated): once the transcoder has been started, the completion
\* notification is emitted only after the runner has read the diagnostic
\* stream to its end and has seen the process exited.
C9_Original ==
    \A t \in Threads :
        (pc[t] = "emitted" /\ proc[t] # "none") =>
            (proc[t] = "exited" /\ output[t] = EofLine /\ stderr[t] = << >>)

\* C10 (as stated): at most one worker's run is in progress at any time, and
\* the Convert button is disabled from the start of a conversion until its
\* completion notification has been handled.
Running == {t \in Threads : pc[t] \notin {"unborn", "done"}}
Handled(t) == delivered[t] = Len(Notes(t)) /\ FinishedCount(t) = 1

C10_Original ==
    /\ Cardinality(Running) <= 1
    /\ (conversion_thread # 0 /\ ~Handled(conversion_thread)) => ~convert_enabled
====
